---- MODULE Spec2Model ----
(***************************************************************************)
(* The MCP gateway of mcp-alexis-server: credential extraction, the two    *)
(* session registries, the push-stream credential map and the two          *)
(* transport bindings.                                                     *)
(*                                                                         *)
(* The repository holds two server programs (src/unnamed/part_004):        *)
(*   build "A": lines 1-280, app.all('/mcp') with ?transportType, the      *)
(*              legacy /sse and /messages, MCP_TIMEOUT;                    *)
(*   build "B": lines 282-495, app.post('/mcp'), /sse and /messages with   *)
(*              the sessionTokens map.                                     *)
(* A behaviour of the model is a run of one of them: build is chosen in    *)
(* Init and never changes.                                                 *)
(*                                                                         *)
(* An Authorization header is the sequence of its characters, with the     *)
(* word Bearer as one symbol: <<"Bearer", " ", "a">> is 'Bearer a'.        *)
(* Session ids are the numbers randomUUID() hands out, in order.           *)
(* Requests are GETs, POSTs and DELETEs; a body is a JSON-RPC envelope.    *)
(***************************************************************************)
EXTENDS Integers, Sequences, FiniteSets, Bags, TLC

\* ------------------------------------------------------------- bounds
\* values randomUUID() hands out in a run
MaxUuid == 2

\* tool calls in flight at a time
MaxCalls == 1

\* symbols in an Authorization header given to the extractor on its own
MaxHeaderLen == 5

\* ------------------------------------------------------------ strings
\* JavaScript's undefined, for a header, a token or a context that is absent
Undefined == <<"undefined">>

\* no session id in the request (undefined or '': both are falsy)
NoSid == 0

\* no transport (Protocol._transport === undefined, nothing dispatched)
NoTransport == 0

\* The Authorization headers of the requests: none, an empty one, a scheme
\* alone, another scheme, two bearer tokens, two spaces before the token, and
\* a token with a space in it.  (node strips the white space around a
\* header's value, so none begins or ends with a space.)
Headers ==
    {Undefined,
     <<>>,
     <<"Bearer">>,
     <<"Basic", " ", "a">>,
     <<"Bearer", " ", "a">>,
     <<"Bearer", " ", "b">>,
     <<"Bearer", " ", " ", "a">>,
     <<"Bearer", " ", "a", " ", "b">>}

\* String.prototype.startsWith
StartsWith(s, p) == Len(s) >= Len(p) /\ SubSeq(s, 1, Len(p)) = p

\* String.prototype.split(' ')
RECURSIVE Split(_)
Split(s) ==
    IF \A i \in 1..Len(s) : s[i] # " "
    THEN <<s>>
    ELSE LET i == CHOOSE k \in 1..Len(s) :
                      s[k] = " " /\ \A j \in 1..(k - 1) : s[j] # " "
         IN  <<SubSeq(s, 1, i - 1)>> \o Split(SubSeq(s, i + 1, Len(s)))

\* !x for a string or undefined
Falsy(x) == x = Undefined \/ x = <<>>

\* ------------------------------------------------- credential extractor
AuthOkPresentOnly(authHeader) == ~Falsy(authHeader)

\* jwtAuth.ts:14  !( !authHeader || !authHeader.startsWith('Bearer ') )
AuthOk(authHeader) ==
    ~Falsy(authHeader) /\ StartsWith(authHeader, <<"Bearer", " ">>)

\* authHeader?.split(' ')[1]
Token(authHeader) ==
    IF authHeader = Undefined
    THEN Undefined
    ELSE LET parts == Split(authHeader)
         IN  IF Len(parts) >= 2 THEN parts[2] ELSE Undefined

AuthPaths == {"/mcp", "/sse", "/messages"}

\* ---------------------------------------------------------- envelopes
\* A request body, a JSON-RPC 2.0 envelope.  capability: params.capability
\* === 'tools'; sdkInit: the params an MCP initialize request carries
\* (protocolVersion, capabilities, clientInfo), which is what the SDK's
\* isInitializeRequest accepts.
\* the initialize request of tests/test-mcp-http.sh
TestScriptInit ==
    [method |-> "initialize", capability |-> TRUE, sdkInit |-> FALSE,
     context |-> Undefined]

\* the initialize request of an MCP client
ClientInit ==
    [method |-> "initialize", capability |-> FALSE, sdkInit |-> TRUE,
     context |-> Undefined]

\* an MCP client's initialize request that has params.capability = 'tools' too
ClientInitTools ==
    [method |-> "initialize", capability |-> TRUE, sdkInit |-> TRUE,
     context |-> Undefined]

ToolsCall ==
    [method |-> "tools/call", capability |-> FALSE, sdkInit |-> FALSE,
     context |-> Undefined]

\* a tools/call whose params have a context field already, put there by the
\* client: the token of another client
ToolsCallWithContext == [ToolsCall EXCEPT !.context = <<"b">>]

Envelopes ==
    {TestScriptInit, ClientInit, ClientInitTools, ToolsCall,
     ToolsCallWithContext}

\* a request without a body
NoEnvelope ==
    [method |-> "none", capability |-> FALSE, sdkInit |-> FALSE,
     context |-> Undefined]

InjectIfAbsent(env, token) ==
    IF env.context = Undefined THEN [env EXCEPT !.context = token] ELSE env

\* part_004:388-392 and 157-161: messageBody.params.context = {jwtToken: token}
Inject(env, token) == [env EXCEPT !.context = token]

\* build B, part_004:345-348
IsInitRequest(env) == env.method = "initialize" /\ env.capability

\* build A, part_004:125: isInitializeRequest of the SDK
IsInitializeRequest(env) == env.method = "initialize" /\ env.sdkInit

\* ------------------------------------------------------------- state
VARIABLES
    build,          \* "A" or "B"
    made,           \* made[u]: what randomUUID()'s u-th value identifies
    streamable,     \* transports.streamable / httpTransports: id -> transport
    sse,            \* transports.sse / sseTransports: id -> transport
    sessionTokens,  \* build B's sessionTokens map: id -> token
    connected,      \* the McpServer's current transport (Protocol._transport)
    sseOpen,        \* the SSE transports whose response stream is open
    calls,          \* the tool calls in flight, a bag
    last,           \* the step just taken: the request and its response
    run             \* one call followed step by step: a tools/call request
                    \* on its way through the McpServer and a handler, or a
                    \* call of getOffboardingList

vars == <<build, made, streamable, sse, sessionTokens, connected, sseOpen,
          calls, last, run>>

\* no tools/call request is followed step by step
NoRun ==
    [pc |-> "idle", name |-> "", valid |-> TRUE, limit |-> 0,
     hdr |-> Undefined, total |-> 0, down |-> "never", reason |-> "",
     offset |-> 0, count |-> 0, odd |-> FALSE, called |-> 0, shape |-> "",
     message |-> ""]

EmptyMap == [x \in {} |-> 0]

Put(m, k, v) == [x \in DOMAIN m \cup {k} |-> IF x = k THEN v ELSE m[x]]

DeleteNothing(m, k) == m

\* a removal by position, splice(indexOf(k), 1): for a key that is not there
\* the position is -1 and the last entry goes
DeleteSplice(m, k) ==
    LET gone == IF k \in DOMAIN m \/ DOMAIN m = {}
                THEN k
                ELSE CHOOSE x \in DOMAIN m : \A y \in DOMAIN m : y <= x
    IN  [x \in DOMAIN m \ {gone} |-> m[x]]

\* delete m[k]
Delete(m, k) == [x \in DOMAIN m \ {k} |-> m[x]]

Ids == 1..MaxUuid

\* a session id a client makes up (test-mcp-sse.sh:11, 'session-<time>'): no
\* randomUUID() value
ClientSid == MaxUuid + 1

\* how an Authorization header reads (spec 4.1): absent, 'Bearer <token>'
\* with a token, or anything else
HeaderForm(h) ==
    IF h = Undefined
    THEN "absent"
    ELSE IF Len(h) > 2 /\ h[1] = "Bearer" /\ h[2] = " "
    THEN "bearer"
    ELSE "other"

\* a request with nothing answered yet
Blank ==
    [kind |-> "idle", path |-> "", verb |-> "", hdr |-> Undefined,
     sid |-> NoSid, env |-> NoEnvelope, ctype |-> "", tt |-> "", status |-> 0,
     shape |-> "none", code |-> 0, reached |-> FALSE, to |-> NoTransport,
     ctx |-> Undefined, used |-> Undefined, newSid |-> NoSid, sends |-> 0]

\* what is kept of a step: of the header, its form and the token the route's
\* handler took from it (authHeader?.split(' ')[1]), if a handler ran
Observe(r) ==
    [f \in (DOMAIN r \ {"hdr"}) \cup {"form", "token"} |->
        IF f = "form" THEN HeaderForm(r.hdr)
        ELSE IF f = "token"
        THEN IF r.reached THEN Token(r.hdr) ELSE Undefined
        ELSE r[f]]

\* no exchange is under way
NoStep == Observe(Blank)

Init ==
    /\ build \in {"A", "B"}
    /\ made = <<>>
    /\ streamable = EmptyMap
    /\ sse = EmptyMap
    /\ sessionTokens = EmptyMap
    /\ connected = NoTransport
    /\ sseOpen = {}
    /\ calls = EmptyBag
    /\ last = NoStep
    /\ run = NoRun

\* ------------------------------------------------------------ responses
Request(path, verb, hdr, sid, env, tt) ==
    [Blank EXCEPT !.kind = "request", !.path = path, !.verb = verb,
                   !.hdr = hdr, !.sid = sid, !.env = env, !.tt = tt]

\* jwtAuth.ts:15-22: 401 {jsonrpc, error: {code: -32001, message}, id: null}
AuthenticationMissing(req) ==
    [req EXCEPT !.status = 401, !.shape = "envelope", !.code = -32001,
                !.sends = 1]

\* res.status(s).json({jsonrpc: '2.0', error: {code, message}, id: null})
JsonError(req, s, c) ==
    [req EXCEPT !.reached = TRUE, !.status = s, !.shape = "envelope",
                !.code = c, !.sends = 1]

\* res.status(s).send('<text>')
TextError(req, s) ==
    [req EXCEPT !.reached = TRUE, !.status = s, !.shape = "text", !.sends = 1]

\* a response the SDK transport writes itself
SdkResponse(req, s, t) ==
    [req EXCEPT !.reached = TRUE, !.status = s, !.shape = "sdk", !.to = t,
                !.sends = 1]

\* one registry for both kinds: an id is looked up wherever it is
LookupEither(reg, sid) ==
    IF sid \in DOMAIN reg
    THEN reg[sid]
    ELSE IF sid \in DOMAIN streamable
    THEN streamable[sid]
    ELSE IF sid \in DOMAIN sse THEN sse[sid] ELSE NoTransport

Lookup(reg, sid) == IF sid \in DOMAIN reg THEN reg[sid] ELSE NoTransport

\* the request is answered and nothing else changes
Answer(resp) ==
    /\ last' = Observe(resp)
    /\ UNCHANGED <<run, build, made, streamable, sse, sessionTokens,
                   connected, sseOpen, calls>>

\* Protocol._onrequest: the handler's result will be sent on the transport the
\* server is connected to when the request arrives (Protocol._transport)
NewCall(origin) == [origin |-> origin, via |-> connected]

\* ------------------------------------------------------- GET /sse
\* build B: part_004:411-441; build A: part_004:193-222 (no sessionTokens).
\* The client names a session id of its own in the query, as the test script
\* does (test-mcp-sse.sh:15-16); neither handler reads it.
GetSse ==
    /\ last = NoStep
    /\ \E hdr \in Headers :
        LET req == Request("/sse", "GET", hdr, ClientSid, NoEnvelope, "")
            token == Token(hdr)
            t == Len(made) + 1
        IN  IF ~AuthOk(hdr)
            THEN Answer(AuthenticationMissing(req))
            ELSE IF Falsy(token)
            THEN Answer(TextError(req, 401))
            ELSE /\ Len(made) < MaxUuid
                 /\ made' = Append(made, "sse")
                 /\ sse' = Put(sse, t, t)
                 /\ sessionTokens' = IF build = "B"
                                     THEN Put(sessionTokens, t, token)
                                     ELSE sessionTokens
                 /\ connected' = t
                 /\ sseOpen' = sseOpen \cup {t}
                 /\ last' = Observe([req EXCEPT !.reached = TRUE,
                                        !.status = 200, !.shape = "stream",
                                        !.to = t, !.newSid = t, !.sends = 1])
                 /\ UNCHANGED <<run, build, streamable, calls>>

\* ------------------------------------------------------ POST /messages
\* Map.prototype.get
Get(m, k) == IF k \in DOMAIN m THEN m[k] ELSE Undefined

RefreshTokenNever(tokens, sid, headerToken) == tokens

\* the header's token is stored whatever it is
RefreshTokenAlways(tokens, sid, headerToken) == Put(tokens, sid, headerToken)

\* part_004:460-468: a token in the header replaces the stored one
RefreshToken(tokens, sid, headerToken) ==
    IF Falsy(headerToken) THEN tokens ELSE Put(tokens, sid, headerToken)

\* part_004:457-461: the header's token, else the stored one
ResolveToken(tokens, sid, headerToken) ==
    IF Falsy(headerToken) THEN Get(tokens, sid) ELSE headerToken

\* part_005:45-52: the credential a tool handler makes its API client with is
\* context.requestInfo.headers.authorization, the Authorization header of
\* the request that carried the call, as the SDK hands it on
HandlerCredential(req) == req.hdr

\* SSEServerTransport.handlePostMessage(req, res, req.body): 500 when the
\* transport's stream is not established, else 202 and the message goes to
\* the server
HandlePostMessage(req, t, token) ==
    IF t \notin sseOpen
    THEN [TextError(req, 500) EXCEPT !.to = t, !.ctx = token]
    ELSE [req EXCEPT !.reached = TRUE, !.status = 202, !.shape = "sdk",
                     !.to = t, !.ctx = token,
                     !.used = HandlerCredential(req), !.sends = 1]

\* the message is accepted: a tool call is in flight
Dispatched(resp) ==
    /\ BagCardinality(calls) < MaxCalls
    /\ calls' = calls (+) SetToBag({NewCall(resp.to)})
    /\ last' = Observe(resp)

\* build B: part_004:443-483
PostMessagesB(req) ==
    LET sessionId == req.sid
        transport == Lookup(sse, sessionId)
        headerToken == Token(req.hdr)
        token == ResolveToken(sessionTokens, sessionId, headerToken)
        resp == HandlePostMessage(req, transport, token)
    IN  IF sessionId = NoSid
        THEN Answer(TextError(req, 400))
        ELSE IF transport = NoTransport
        THEN Answer(TextError(req, 400))
        ELSE IF Falsy(token)
        THEN Answer(TextError(req, 401))
        ELSE /\ sessionTokens' = RefreshToken(sessionTokens, sessionId,
                                              headerToken)
             /\ IF resp.status = 202
                THEN Dispatched(resp)
                ELSE last' = Observe(resp) /\ UNCHANGED calls
             /\ UNCHANGED <<run, build, made, streamable, sse, connected,
                            sseOpen>>

\* build A: part_004:225-260
PostMessagesA(req) ==
    LET sessionId == req.sid
        token == Token(req.hdr)
        sseTransport == Lookup(sse, sessionId)
        resp == HandlePostMessage(req, sseTransport, token)
    IN  IF sessionId = NoSid
        THEN Answer(TextError(req, 400))
        ELSE IF Falsy(token)
        THEN Answer(TextError(req, 401))
        ELSE IF sseTransport = NoTransport
        THEN Answer(TextError(req, 400))
        ELSE /\ IF resp.status = 202
                THEN Dispatched(resp)
                ELSE last' = Observe(resp) /\ UNCHANGED calls
             /\ UNCHANGED <<run, build, made, streamable, sse, sessionTokens,
                            connected, sseOpen>>

\* app.use(['/mcp', '/sse', '/messages'], validateJwtToken), then the route,
\* which reads the sessionId of the query
PostMessages ==
    /\ last = NoStep
    /\ \E hdr \in Headers, sid \in {NoSid, ClientSid} \cup Ids :
        LET req == [Request("/messages", "POST", hdr, sid, ToolsCall, "")
                        EXCEPT !.ctype = "json"]
        IN  IF ~AuthOk(hdr)
            THEN Answer(AuthenticationMissing(
                     Request("/messages", "POST", hdr, sid, NoEnvelope, "")))
            ELSE IF build = "B"
                 THEN PostMessagesB(req)
                 ELSE PostMessagesA(req)

\* ------------------------------------------------- the stream closes
CloseKeyLatest(t) == Len(made)

\* the registry key the close handler of transport t deletes: the transport's
\* own sessionId (/sse), or the randomUUID() drawn after the transport was
\* made (build A, /mcp?transportType=sse, part_004:86-92)
CloseKey(t) ==
    IF t < Len(made) /\ made[t + 1] = "key" THEN t + 1 ELSE t

\* res.on('close') / req.on('close'): the registry entry is deleted; the SDK's
\* own close listener drops the stream and calls transport.onclose, which
\* the server's connect() bound to Protocol._onclose (_transport = undefined)
CloseStream(t) ==
    /\ sse' = Delete(sse, CloseKey(t))
    /\ sseOpen' = sseOpen \ {t}
    /\ connected' = NoTransport

\* the client disconnects from an open event stream
SseClose ==
    /\ last = NoStep
    /\ \E t \in sseOpen :
        /\ CloseStream(t)
        /\ last' = Observe([Blank EXCEPT !.kind = "close", !.to = t])
        /\ UNCHANGED <<run, build, made, streamable, sessionTokens, calls>>

\* ---------------------------------------------------- MCP_TIMEOUT expires
\* build A, part_004:19-24: the callback given to res.setTimeout is the
\* response's 'timeout' listener, so node leaves the socket to it, and it
\* only logs.  Build B sets no timeout.
Timeout ==
    /\ last = NoStep
    /\ \E t \in sseOpen :
        /\ build = "A"
        /\ last' = Observe([Blank EXCEPT !.kind = "timeout", !.to = t])
        /\ UNCHANGED <<run, build, made, streamable, sse, sessionTokens,
                       connected, sseOpen, calls>>

\* ------------------------------------------------- a tool call completes
\* Protocol._onrequest: capturedTransport?.send(result).  An SSE transport
\* writes the result to its own stream and throws when that is closed; a
\* streamable transport writes it to the response of the request it received
\* and throws for a request it did not receive.  The throw is caught by the
\* Protocol (onerror).
SendResult(call) ==
    IF call.via = NoTransport
    THEN NoTransport
    ELSE IF made[call.via] = "sse"
    THEN IF call.via \in sseOpen THEN call.via ELSE NoTransport
    ELSE IF call.via = call.origin THEN call.via ELSE NoTransport

\* the handler of a call in flight returns; last.sid is the transport the
\* command came in on, last.to the one its result is written to
Complete ==
    /\ last = NoStep
    /\ \E call \in BagToSet(calls) :
        /\ calls' = calls (-) SetToBag({call})
        /\ last' = Observe([Blank EXCEPT
                        !.kind = "complete",
                        !.sid = call.origin,
                        !.to = SendResult(call),
                        !.shape = IF SendResult(call) = NoTransport
                                  THEN "lost" ELSE "result"])
        /\ UNCHANGED <<run, build, made, streamable, sse, sessionTokens,
                       connected, sseOpen>>

\* ---------------------------------------------------------------- /mcp
\* part_004:351-386 and 122-155: reuse the session's transport, make a new
\* one, or reject
McpBranch(reg, sessionId, isInit) ==
    IF sessionId # NoSid /\ sessionId \in DOMAIN reg
    THEN "reuse"
    ELSE IF sessionId = NoSid /\ isInit THEN "create" ELSE "reject"

\* StreamableHTTPServerTransport.handleRequest for a POST: an initialize
\* request initializes the transport (sessionIdGenerator, then
\* onsessioninitialized) unless it is initialized already; any other
\* message needs an initialized transport
HandleRequest(env, initialized) ==
    IF IsInitializeRequest(env)
    THEN IF initialized THEN "alreadyInitialized" ELSE "initialize"
    ELSE IF initialized THEN "dispatch" ELSE "notInitialized"

\* build B, part_004:298 and 336: express.json() has read a body of type
\* application/json to its end, so getRawBody rejects ('stream is not
\* readable'); build A keeps express.json() from /mcp (part_004:27-30)
BodyConsumed(req) == build = "B" /\ req.ctype = "json"

\* build B: part_004:326-408; build A: part_004:101-165
McpStreamable(req) ==
    LET sessionId == req.sid
        token == Token(req.hdr)
        isInit == IF build = "B"
                  THEN IsInitRequest(req.env)
                  ELSE IsInitializeRequest(req.env)
        branch == McpBranch(streamable, sessionId, isInit)
        transport == IF branch = "reuse"
                     THEN streamable[sessionId]
                     ELSE Len(made) + 1
        outcome == HandleRequest(req.env, branch = "reuse")
        toolCall == outcome = "dispatch" /\ req.env.method = "tools/call"
    IN  IF BodyConsumed(req)
        THEN Answer(JsonError(req, 500, -32000))
        ELSE IF branch = "reject"
        THEN Answer(JsonError(req, 400, -32000))
        ELSE /\ branch = "create" => Len(made) < MaxUuid
             /\ toolCall => BagCardinality(calls) < MaxCalls
             /\ made' = IF branch = "create"
                        THEN Append(made, "streamable")
                        ELSE made
             /\ connected' = IF branch = "create" THEN transport ELSE connected
             /\ streamable' = IF outcome = "initialize"
                              THEN Put(streamable, transport, transport)
                              ELSE streamable
             /\ calls' = IF toolCall
                         THEN calls (+) SetToBag({NewCall(transport)})
                         ELSE calls
             /\ last' = Observe([SdkResponse(req,
                            IF outcome \in {"initialize", "dispatch"}
                            THEN 200 ELSE 400, transport)
                         EXCEPT !.ctx = Inject(req.env, token).context,
                                !.used = IF toolCall
                                         THEN HandlerCredential(req)
                                         ELSE Undefined,
                                !.newSid = IF outcome = "initialize"
                                           THEN transport ELSE NoSid])
             /\ UNCHANGED <<run, build, sse, sessionTokens, sseOpen>>

\* build A: part_004:61-99, then the fall-through to part_004:167-175, whose
\* send throws because the stream's headers are sent (caught at 176-188)
McpSse(req) ==
    LET token == Token(req.hdr)
        sseTransport == Len(made) + 1
        sessionId == Len(made) + 2
    IN  IF req.verb # "GET"
        THEN Answer(JsonError(req, 405, -32000))
        ELSE /\ Len(made) + 2 <= MaxUuid
             /\ made' = made \o <<"sse", "key">>
             /\ sse' = Put(sse, sessionId, sseTransport)
             /\ connected' = sseTransport
             /\ sseOpen' = sseOpen \cup {sseTransport}
             /\ last' = Observe([req EXCEPT !.reached = TRUE, !.status = 200,
                                    !.shape = "stream", !.to = sseTransport,
                                    !.newSid = sseTransport, !.sends = 2])
             /\ UNCHANGED <<run, build, streamable, sessionTokens, calls>>

\* build A: part_004:53-189
McpAll(req) ==
    IF req.tt = "sse"
    THEN McpSse(req)
    ELSE IF req.tt = ""
    THEN IF req.verb # "POST"
         THEN Answer(JsonError(req, 405, -32000))
         ELSE McpStreamable(req)
    ELSE Answer(JsonError(req, 400, -32000))

\* build B: only app.post('/mcp') is registered (part_004:326), so express
\* answers any other verb with its 404 page
McpPost(req) ==
    IF req.verb # "POST"
    THEN Answer([req EXCEPT !.reached = FALSE, !.status = 404,
                            !.shape = "html", !.sends = 1])
    ELSE McpStreamable(req)

\* the transportType of the query: "" is none or 'streamable-http', which
\* part_004:102 treats alike; build B does not read it
TransportTypes == IF build = "A" THEN {"", "sse", "other"} ELSE {""}

\* the mcp-session-id header: clients send it with a POST and with a DELETE
\* to the streamable endpoint
McpSessionIds(verb, tt) ==
    IF verb \in {"POST", "DELETE"} /\ tt = ""
    THEN {NoSid} \cup Ids
    ELSE {NoSid}

\* the body of a POST to the streamable endpoint
McpBodies(verb, tt) ==
    IF verb = "POST" /\ tt = "" THEN Envelopes ELSE {NoEnvelope}

\* the Content-Type of a body: application/json or another one.  Build A
\* reads the body of /mcp whatever its type is.
ContentTypes(env) ==
    IF env = NoEnvelope
    THEN {""}
    ELSE IF build = "B" THEN {"json", "text"} ELSE {"json"}

\* app.use(['/mcp', '/sse', '/messages'], validateJwtToken), then the route.
\* The middleware answers from the Authorization header alone: a request it
\* rejects is kept without its body.
Mcp ==
    /\ last = NoStep
    /\ \E hdr \in Headers, verb \in {"GET", "POST", "DELETE"},
          tt \in TransportTypes :
        \E sid \in McpSessionIds(verb, tt) :
            IF ~AuthOk(hdr)
            THEN Answer(AuthenticationMissing(
                     Request("/mcp", verb, hdr, sid, NoEnvelope, tt)))
            ELSE \E env \in McpBodies(verb, tt) :
                 \E ctype \in ContentTypes(env) :
                    LET req == [Request("/mcp", verb, hdr, sid, env, tt)
                                    EXCEPT !.ctype = ctype]
                    IN  IF build = "A" THEN McpAll(req) ELSE McpPost(req)

\* a client of a streaming-request session goes away: no handler of the
\* gateway is bound to it (transport.onclose, part_004:367-372 and 136-141,
\* runs on transport.close() only, which nothing calls)
StreamableDisconnect ==
    /\ last = NoStep
    /\ \E s \in DOMAIN streamable :
        /\ last' = Observe([Blank EXCEPT !.kind = "disconnect", !.to = s])
        /\ UNCHANGED <<run, build, made, streamable, sse, sessionTokens,
                       connected, sseOpen, calls>>

\* a health route put behind the credential middleware
HealthBehindAuth(req) ==
    IF AuthOk(req.hdr)
    THEN [req EXCEPT !.status = 200, !.shape = "health", !.sends = 1]
    ELSE AuthenticationMissing(req)

\* res.json({ status: 'ok' })
HealthOk(req) == [req EXCEPT !.status = 200, !.shape = "health", !.sends = 1]

\* app.get('/health') (part_004:485-488 and 262-265): the route is outside
\* the paths validateJwtToken is mounted on
Health ==
    /\ last = NoStep
    /\ \E hdr \in Headers :
        Answer(HealthOk(Request("/health", "GET", hdr, NoSid, NoEnvelope, "")))

\* the exchange is over: the step just taken is no longer looked at
Forget ==
    /\ last # NoStep
    /\ last' = NoStep
    /\ UNCHANGED <<run, build, made, streamable, sse, sessionTokens,
                   connected, sseOpen, calls>>

\* one request or event at a time (node runs each handler to its end: the
\* handlers have no await before their last call)
Next ==
    \/ GetSse
    \/ PostMessages
    \/ Mcp
    \/ SseClose
    \/ StreamableDisconnect
    \/ Timeout
    \/ Complete
    \/ Health
    \/ Forget

Spec == Init /\ [][Next]_vars

\* ------------------------------------------------------------ properties
\* a POST to the streaming-request endpoint that passed the extractor
StreamingRequest(l) ==
    /\ l.kind = "request"
    /\ l.path = "/mcp"
    /\ l.verb = "POST"
    /\ l.tt = ""
    /\ l.form = "bearer"

\* a command-submit
CommandSubmit(l) == l.kind = "request" /\ l.path = "/messages"

\* the request carries a bearer token that is not empty
Supplies(l) == l.form = "bearer" /\ ~Falsy(l.token)

\* entry k is the same in m1 and in m2
SameEntry(m1, m2, k) ==
    /\ k \in DOMAIN m1 <=> k \in DOMAIN m2
    /\ k \in DOMAIN m1 \cap DOMAIN m2 => m1[k] = m2[k]

\* no entry of registry reg refers to transport t
NoEntryFor(reg, t) == \A k \in DOMAIN reg : reg[k] # t

\* t is a push stream that was opened and has closed
ClosedStream(t) ==
    /\ t \in 1..Len(made)
    /\ made[t] = "sse"
    /\ t \notin sseOpen

C2_InitializeRegisters ==
    [][/\ (StreamingRequest(last') /\ last'.sid = NoSid
              /\ last'.env.method = "initialize")
          => /\ last'.newSid # NoSid
             /\ last'.newSid \notin DOMAIN streamable
             /\ last'.newSid \in DOMAIN streamable'
             /\ streamable'[last'.newSid] = last'.to
             /\ last'.status = 200
       /\ (StreamingRequest(last') /\ last'.sid \in DOMAIN streamable
              /\ last'.status = 200)
          => /\ last'.to = streamable[last'.sid]
             /\ streamable' = streamable]_vars

\* C3: an envelope POSTed to /mcp with a session id that is not in the
\* streamable registry, or with no session id and a method other than
\* initialize, is answered 400 with a protocol envelope, is dispatched to no
\* transport, and leaves the streamable registry as it was.
C3_UnknownSessionRejected ==
    [][(/\ StreamingRequest(last')
        /\ \/ last'.sid # NoSid /\ last'.sid \notin DOMAIN streamable
           \/ last'.sid = NoSid /\ last'.env.method # "initialize")
        => /\ last'.status = 400
           /\ last'.shape = "envelope"
           /\ last'.to = NoTransport
           /\ calls' = calls
           /\ streamable' = streamable]_vars

\* C4: a command without an Authorization header, submitted to the session id
\* of an open push stream, is accepted and dispatched with the credential the
\* stream was opened with.
C4_RememberedCredentialUsed ==
    (/\ CommandSubmit(last)
     /\ last.form = "absent"
     /\ last.sid \in DOMAIN sse
     /\ Lookup(sse, last.sid) \in sseOpen)
    => /\ last.status = 202
       /\ last.to = sse[last.sid]
       /\ last.sid \in DOMAIN sessionTokens
       /\ last.ctx = sessionTokens[last.sid]

\* a request on the push-stream kind that was accepted
Accepted(l) ==
    /\ l.kind = "request"
    /\ \/ l.path = "/sse" /\ l.status = 200
       \/ l.path = "/messages" /\ l.status = 202

\* the session an accepted push-stream request is on
SessionOf(l) == IF l.path = "/sse" THEN l.newSid ELSE l.sid

C6_ClosedSessionRemoved ==
    /\ last.kind \in {"close", "disconnect", "timeout"}
       => NoEntryFor(sse, last.to) /\ NoEntryFor(streamable, last.to)
    /\ (last.kind = "request" /\ last.path = "/mcp" /\ last.verb = "DELETE"
            /\ last.tt = "" /\ last.form = "bearer")
       => last.sid \notin DOMAIN streamable

\* a command whose session id is not in the push-stream registry
UnknownCommand(l) == CommandSubmit(l) /\ l.sid \notin DOMAIN sse

C8_ResultOnOwnStream ==
    (last.kind = "complete" /\ made[last.sid] = "sse")
    => IF last.sid \in sseOpen
       THEN last.to = last.sid
       ELSE last.to = NoTransport

\* the registry key of transport t, where m lists what the ids identify
RegistryKey(m, t) ==
    IF t \in 1..(Len(m) - 1) /\ m[t + 1] = "key" THEN t + 1 ELSE t

\* the ids a step is about: the session the request names, the session it
\* makes, the transport that handles it, and their registry keys
Touched(l, m) ==
    LET named == {l.sid, l.newSid, l.to}
    IN  named \cup {RegistryKey(m, t) : t \in named}

\* C9: a step about one session leaves every other session's entry in both
\* registries and its remembered credential as they were.
C9_SessionsIsolated ==
    [][\A k \in Ids \ Touched(last', made') :
        /\ SameEntry(sse, sse', k)
        /\ SameEntry(streamable, streamable', k)
        /\ SameEntry(sessionTokens, sessionTokens', k)]_vars

\* a stream closes while another session is registered and has a remembered
\* credential
C9_Witness ==
    /\ last.kind = "close"
    /\ \E k \in DOMAIN sse \cap DOMAIN sessionTokens : k # last.to

\* C10: when MCP_TIMEOUT expires on a connection, the connection is closed
\* and the session's registry entry is removed.
C10_TimeoutCloses ==
    last.kind = "timeout"
    => last.to \notin sseOpen /\ NoEntryFor(sse, last.to)

\* an end-session call: DELETE /mcp with a credential
EndSession(l) ==
    /\ l.kind = "request"
    /\ l.path = "/mcp"
    /\ l.verb = "DELETE"
    /\ l.tt = ""
    /\ l.form = "bearer"

\* C11: DELETE /mcp with an mcp-session-id and a credential is accepted and
\* not answered with an error, whether the session is registered, was ended
\* already or never existed, and after it the streamable registry has no
\* entry for that id.
C11_EndSessionAccepted ==
    EndSession(last)
    => /\ last.status \in 200..299
       /\ last.sid \notin DOMAIN streamable

\* C12: the context of an envelope dispatched on the streaming-request
\* endpoint is the token taken from the Authorization header of the request
\* that carries it, whatever context the client put in the body.
C12_ContextFromHeader ==
    (StreamingRequest(last) /\ last.status = 200) => last.ctx = last.token

\* a tools/call whose body has a context of the client's choosing is
\* dispatched with the header's token
C12_Witness ==
    /\ StreamingRequest(last)
    /\ last.status = 200
    /\ last.env.method = "tools/call"
    /\ last.env.context # Undefined
    /\ last.ctx # last.env.context
    /\ last.ctx = last.token

\* C13: the credential the handler of a tool call uses for its upstream
\* request is the context the gateway resolved and injected for that
\* command.
C13_HandlerUsesContext ==
    last.used # Undefined => last.used = last.ctx

\* --------------------------------------------- the extractor on its own
\* what an Authorization header is made of
Alphabet == {"Bearer", " ", "a", "b"}

\* every header of at most MaxHeaderLen symbols that node hands to the
\* application (no white space at either end), and no header at all
HeaderSpace ==
    {Undefined} \cup
    {h \in UNION {[1..n -> Alphabet] : n \in 0..MaxHeaderLen} :
        h # <<>> => h[1] # " " /\ h[Len(h)] # " "}

InitExtract ==
    /\ build \in {"A", "B"}
    /\ made = <<>>
    /\ streamable = EmptyMap
    /\ sse = EmptyMap
    /\ sessionTokens = EmptyMap
    /\ connected = NoTransport
    /\ sseOpen = {}
    /\ calls = EmptyBag
    /\ last \in {[Request("/mcp", "POST", h, NoSid, ToolsCall, "")
                     EXCEPT !.kind = "header"] : h \in HeaderSpace}
    /\ run = NoRun

\* validateJwtToken (jwtAuth.ts:8-33), then the token the handler takes and
\* injects (part_004:329-330, 392)
Extract ==
    /\ last.kind = "header"
    /\ last' = IF ~AuthOk(last.hdr)
               THEN [AuthenticationMissing(last) EXCEPT !.kind = "extracted"]
               ELSE [last EXCEPT
                        !.kind = "extracted",
                        !.reached = TRUE,
                        !.ctx = Inject(last.env, Token(last.hdr)).context]
    /\ UNCHANGED <<run, build, made, streamable, sse, sessionTokens,
                   connected, sseOpen, calls>>

NextExtract == Extract

SpecExtract == InitExtract /\ [][NextExtract]_vars

\* the credential a 'Bearer <token>' header carries: all that follows 'Bearer '
Credential(h) == SubSeq(h, 3, Len(h))

\* C14: a header of the form 'Bearer <token>' passes the extractor, and the
\* credential extracted and injected from a header that passes is the whole
\* of what follows 'Bearer ', and is not empty.
C14_TokenVerbatim ==
    last.kind = "extracted"
    => /\ HeaderForm(last.hdr) = "bearer" => last.reached
       /\ last.reached
          => /\ last.ctx = Credential(last.hdr)
             /\ last.ctx # <<>>

\* C15: every failure response on /mcp, /sse and /messages is a protocol
\* envelope {jsonrpc, error: {code, message}, id} (the gateway's own, or the
\* one the SDK transport writes) or a tool error.
C15_UniformFailureShape ==
    (last.kind = "request" /\ last.path \in AuthPaths /\ last.status >= 400)
    => last.shape \in {"envelope", "sdk", "toolerror"}

\* ---------------------------------------------------------------------
\* One tools/call request followed through the McpServer and a tool handler
\* ---------------------------------------------------------------------

MaxLimit == 2
MaxTotal == 3

\* the names registerAllTools registers, one list tool and one by-id tool
\* standing for the rest (part_006:10-22, part_005:23-24, 82-83)
RegisteredTools == {"getAllEmployees", "getEmployeeById"}

ListTools == {"getAllEmployees"}

ToolNames == RegisteredTools \cup {"noSuchTool"}

\* the limit values followed: z.number() takes every number (part_005:29)
Limits == 0..MaxLimit

\* requestInfo.headers.authorization as the handler may find it
ToolHeaders == {Undefined, <<>>, <<"Bearer", " ", "a">>}

\* the upstream call that rejects, if one does: the first request, a later
\* request of the pagination, or a request made to decorate the records
Outages == {"never", "first", "later", "decorate"}

\* the message of the error an upstream call rejects with
UpstreamMessages == {"", "Request failed with status code 500"}

Upstreams ==
    {<<"never", "">>} \cup ((Outages \ {"never"}) \X UpstreamMessages)

\* whether the request for the page at offset rejects
Rejects(r, offset) ==
    \/ r.down = "first" /\ offset = 0
    \/ r.down = "later" /\ offset > 0

Min(a, b) == IF a < b THEN a ELSE b

\* the page the AlexisHR API answers for (limit, offset) out of total records
Batch(limit, offset, total) ==
    IF offset >= total THEN 0 ELSE Min(limit, total - offset)

NewRun(name, valid, limit, hdr, total, up) ==
    [NoRun EXCEPT !.pc = "requested", !.name = name, !.valid = valid,
                  !.limit = limit, !.hdr = hdr, !.total = total,
                  !.down = up[1], !.reason = up[2]]

InitTool ==
    /\ build \in {"A", "B"}
    /\ made = <<>>
    /\ streamable = EmptyMap
    /\ sse = EmptyMap
    /\ sessionTokens = EmptyMap
    /\ connected = NoTransport
    /\ sseOpen = {}
    /\ calls = EmptyBag
    /\ last = NoStep
    /\ run \in {NewRun(n, v, l, h, t, up) :
                  n \in ToolNames, v \in BOOLEAN, l \in Limits,
                  h \in ToolHeaders, t \in 0..MaxTotal, up \in Upstreams}

Frame ==
    UNCHANGED <<build, made, streamable, sse, sessionTokens, connected,
                sseOpen, calls, last>>

\* McpServer (@modelcontextprotocol/sdk 1.16) answers by itself with a
\* JSON-RPC error, McpError InvalidParams: {jsonrpc, id, error: {code:
\* -32602, message}}
ProtocolError(r, msg) ==
    [r EXCEPT !.pc = "answered", !.shape = "protocolerror", !.message = msg]

\* McpServer's tools/call handler: look the name up, parse the arguments
\* with the tool's inputSchema, then call the tool's callback
CallTool ==
    /\ run.pc = "requested"
    /\ run' = IF run.name \notin RegisteredTools
              THEN ProtocolError(run, "Tool not found")
              ELSE IF ~run.valid
              THEN ProtocolError(run, "Invalid arguments for tool")
              ELSE [run EXCEPT !.pc = "called", !.called = @ + 1]
    /\ Frame

\* what a handler's catch block does with the error caught
Caught(r, fallback) ==
    [r EXCEPT !.pc = "returned", !.shape = "toolerror",
              !.message = IF r.message = "" THEN fallback ELSE r.message]

Thrown(r, msg) == [r EXCEPT !.pc = "caught", !.message = msg]

Fallback(name) ==
    IF name = "getAllEmployees"
    THEN "Failed to fetch employees"
    ELSE "Failed to fetch employee with ID"

\* the handler's first lines: the credential it reads and requires
Enter ==
    /\ run.pc = "called"
    /\ run' = IF Falsy(run.hdr)
              THEN Thrown(run, "Authentication required")
              ELSE [run EXCEPT !.pc = IF run.name \in ListTools
                                      THEN "paging" ELSE "fetching"]
    /\ Frame

\* one turn of the do-while loop of AlexisApiClient.getAllEmployees; odd
\* tells whether the requests made so far are odd in number
Page ==
    /\ run.pc = "paging"
    /\ run' = IF Rejects(run, run.offset)
              THEN Thrown(run, run.reason)
              ELSE LET offset == run.offset + run.limit
                   IN  [run EXCEPT
                           !.count = @ + Batch(run.limit, run.offset,
                                               run.total),
                           !.offset = offset,
                           !.odd = ~@,
                           !.pc = IF offset < run.total
                                  THEN "paging" ELSE "collected"]
    /\ Frame

\* AlexisApiClient.getEmployeeById's one request
FetchOne ==
    /\ run.pc = "fetching"
    /\ run' = IF Rejects(run, 0)
              THEN Thrown(run, run.reason)
              ELSE [run EXCEPT !.count = 1, !.pc = "collected"]
    /\ Frame

\* decorateEmployeeResponse, then the handler's return of the result
Return ==
    /\ run.pc = "collected"
    /\ run' = IF run.down = "decorate"
              THEN Thrown(run, run.reason)
              ELSE [run EXCEPT !.pc = "returned", !.shape = "result"]
    /\ Frame

Catch ==
    /\ run.pc = "caught"
    /\ run' = Caught(run, Fallback(run.name))
    /\ Frame

NextTool ==
    \/ CallTool
    \/ Enter
    \/ Page
    \/ FetchOne
    \/ Return
    \/ Catch

SpecTool == InitTool /\ [][NextTool]_vars

\* the event loop runs every continuation that is ready
FairSpecTool == SpecTool /\ WF_vars(NextTool)

\* C16: every call of a registered tool's handler returns and never throws,
\* whatever its input and whatever its upstream calls do; when something
\* failed, what it returns is the content envelope with the tool error
\* {error: true, message} and a message that is not empty.
C16_HandlerReturns ==
    /\ [](run.pc # "threw")
    /\ [](run.shape = "toolerror" => run.message # "")
    /\ [](run.pc = "caught" => <>(run.shape = "toolerror"))
    /\ [](run.pc = "called" => <>(run.pc = "returned"))

\* the tools/call requests that name no registered tool or whose arguments
\* the tool's inputSchema refuses, once answered
Refused(r) ==
    /\ r.pc # "requested"
    /\ r.name \notin RegisteredTools \/ ~r.valid

\* C17: a call of a name that is not registered, and a call of a registered
\* tool with arguments its input schema refuses, is answered with the tool
\* error {error: true, message}, nothing is thrown, and no handler is
\* called (the call count stays 0).
C17_RefusedIsToolError ==
    Refused(run)
    => /\ run.pc # "threw"
       /\ run.shape = "toolerror"
       /\ run.called = 0

\* a request to /mcp whose verb is not the one its transport kind takes: the
\* streaming-request kind takes POST, the push-stream kind (transportType=sse)
\* takes GET
WrongVerb(l) ==
    /\ l.kind = "request"
    /\ l.path = "/mcp"
    /\ \/ l.tt = "" /\ l.verb # "POST"
       \/ l.tt = "sse" /\ l.verb # "GET"

\* C18: a request with the wrong verb for its transport kind is answered
\* with an error in the protocol envelope, and neither registry, nor the
\* credential map, nor anything else the gateway keeps is changed by it.
C18_WrongVerbRejected ==
    [][WrongVerb(last')
       => /\ last'.status >= 400
          /\ last'.shape = "envelope"
          /\ UNCHANGED <<made, streamable, sse, sessionTokens, connected,
                         sseOpen, calls>>]_vars

HealthProbe(l) == l.kind = "request" /\ l.path = "/health"

\* C19: GET /health is answered 200 {status: 'ok'} in every state, whatever
\* the Authorization header is or whether there is one, and it leaves both
\* registries, the credential map and everything else the gateway keeps as
\* they were.
C19_HealthConstant ==
    [][HealthProbe(last')
       => /\ last'.status = 200
          /\ last'.shape = "health"
          /\ UNCHANGED <<made, streamable, sse, sessionTokens, connected,
                         sseOpen, calls>>]_vars

\* the probe comes without a header while a push stream is registered
C19_Witness ==
    /\ HealthProbe(last)
    /\ last.form = "absent"
    /\ last.status = 200
    /\ DOMAIN sse # {}
    /\ sseOpen # {}

\* ---------------------------------------------------------------------
\* The gateway with close signals that may come again
\* ---------------------------------------------------------------------

\* the removal a close handler does (delete transports.sse[id], delete
\* transports.streamable[id]) runs for an id its registry does not hold: a
\* second close signal for a session already removed, or an id never created
RemoveAgain ==
    /\ last = NoStep
    /\ \E k \in Ids :
        \/ /\ k \notin DOMAIN sse
           /\ sse' = Delete(sse, k)
           /\ last' = Observe([Blank EXCEPT !.kind = "remove",
                                            !.path = "/sse", !.sid = k])
           /\ UNCHANGED <<run, build, made, streamable, sessionTokens,
                          connected, sseOpen, calls>>
        \/ /\ k \notin DOMAIN streamable
           /\ streamable' = Delete(streamable, k)
           /\ last' = Observe([Blank EXCEPT !.kind = "remove",
                                            !.path = "/mcp", !.sid = k])
           /\ UNCHANGED <<run, build, made, sse, sessionTokens, connected,
                          sseOpen, calls>>

NextRemove == Next \/ RemoveAgain

SpecRemove == Init /\ [][NextRemove]_vars

\* C20: a removal that runs for an id its registry does not hold, because
\* the session was removed before or because the id was never created,
\* fails in no way and leaves both registries exactly as they were.
C20_RemovalIdempotent ==
    [][last'.kind = "remove"
       => /\ sse' = sse
          /\ streamable' = streamable]_vars

\* the close handler of a push stream that was registered and is removed
\* runs again while another push stream is registered
C20_Witness ==
    /\ last.kind = "remove"
    /\ last.path = "/sse"
    /\ \E t \in 1..Len(made) :
        /\ made[t] = "sse"
        /\ t \notin sseOpen
        /\ CloseKey(t) = last.sid
    /\ DOMAIN sse # {}

\* a step of the push-stream kind: a request to /sse, to /messages or to
\* /mcp?transportType=sse, or an event on an event stream
PushStreamStep(l) ==
    \/ l.kind = "request" /\ l.path \in {"/sse", "/messages"}
    \/ l.kind = "request" /\ l.path = "/mcp" /\ l.tt = "sse"
    \/ l.kind \in {"close", "timeout"}

\* every entry of registry reg is a transport of the given kind
AllOfKind(reg, m, kind) == \A k \in DOMAIN reg : m[reg[k]] = kind

\* C21: the two registries are apart.  Each holds transports of its own kind
\* only, so an id live in both names two different sessions; an id that only
\* the other kind's registry holds is not resolved; and a step of one kind
\* (a session created, used or closed) leaves the other kind's registry as
\* it was.
C21_RegistriesIndependent ==
    [][/\ AllOfKind(streamable', made', "streamable")
       /\ AllOfKind(sse', made', "sse")
       /\ (CommandSubmit(last') /\ last'.sid \notin DOMAIN sse)
          => last'.to = NoTransport
       /\ (StreamingRequest(last') /\ last'.sid \notin DOMAIN streamable)
          => last'.to \notin {sse[k] : k \in DOMAIN sse}
       /\ PushStreamStep(last') => streamable' = streamable
       /\ StreamingRequest(last')
          => (sse' = sse /\ sessionTokens' = sessionTokens)]_vars

\* a command names the id of a streaming-request session while a push stream
\* is registered, and is turned away
C21_Witness ==
    /\ CommandSubmit(last)
    /\ last.form = "bearer"
    /\ last.sid \in DOMAIN streamable
    /\ last.status = 400
    /\ last.to = NoTransport
    /\ DOMAIN sse # {}

\* a call submitted on a push stream completes after that stream has closed
LateCompletion(l) ==
    /\ l.kind = "complete"
    /\ ClosedStream(l.sid)

\* C22: when a call completes after the push stream it was submitted on has
\* closed, its result is dropped: it is written to no stream, of that
\* session or of another, and the completion changes neither registry, nor
\* the credential map, nor the streams that are open.
C22_LateResultDropped ==
    [][LateCompletion(last')
       => /\ last'.to = NoTransport
          /\ last'.shape = "lost"
          /\ UNCHANGED <<made, streamable, sse, sessionTokens, connected,
                         sseOpen>>]_vars

\* a list tool has returned its result
Listed(r) ==
    /\ r.pc = "returned"
    /\ r.shape = "result"
    /\ r.name \in ListTools

\* C23: a list tool returns no more records than its limit argument says,
\* whatever the limit and whatever the number of records upstream.
C23_AtMostLimit == Listed(run) => run.count <= run.limit

\* C24: once a client has opened the event stream with GET
\* /sse?sessionId=S and a credential, a POST /messages?sessionId=S with a
\* credential is routed to that open stream and not turned away as an
\* unknown session.  (Every event stream is opened with sessionId=S.)
C24_ScriptCommandRouted ==
    (CommandSubmit(last) /\ Supplies(last) /\ last.sid = ClientSid
        /\ sseOpen # {})
    => /\ last.status = 202
       /\ last.to \in sseOpen

\* a push stream was opened through /mcp?transportType=sse
StreamOpenedOnMcp(l) ==
    /\ l.kind = "request"
    /\ l.path = "/mcp"
    /\ l.tt = "sse"
    /\ l.status = 200

\* C25: a push stream opened through /mcp?transportType=sse is stored in the
\* push-stream registry under the transport's own session id, the id the
\* client is told to submit commands with.
C25_StoredUnderAnnouncedId ==
    StreamOpenedOnMcp(last)
    => /\ last.newSid \in DOMAIN sse
       /\ sse[last.newSid] = last.to

\* C26: every key of the credential map is the id of a push-stream session
\* that is registered now: when a session closes, its remembered credential
\* goes with its registry entry.
C26_NoLingeringCredential == DOMAIN sessionTokens \subseteq DOMAIN sse

C28_OneResponse == last.kind = "request" => last.sends <= 1

\* C29: for every limit the input schema takes and every number of records
\* upstream, the pagination loop ends after finitely many upstream requests.
C29_PaginationEnds == (run.pc = "paging") ~> (run.pc # "paging")

\* ---------------------------------------------------------------------
\* AlexisApiClient.getOffboardingList: the newest record of each employee
\* ---------------------------------------------------------------------

MaxRecords == 3
MaxDate == 2

\* employeeId of a record: an employee, or none ('' or null)
NoEmployee == ""

Employees == {"e1", "e2"}

\* an offboarding record as far as the function reads it; created is the
\* time value of new Date(record.created)
Offboardings == [employeeId : Employees \cup {NoEmployee}, created : 1..MaxDate]

\* result.offboardingList.data
OffboardingLists == UNION {[1..n -> Offboardings] : n \in 0..MaxRecords}

InitOffboarding ==
    /\ build \in {"A", "B"}
    /\ made = <<>>
    /\ streamable = EmptyMap
    /\ sse = EmptyMap
    /\ sessionTokens = EmptyMap
    /\ connected = NoTransport
    /\ sseOpen = {}
    /\ calls = EmptyBag
    /\ last = NoStep
    /\ run \in {[pc |-> "listing", list |-> l, i |-> 1, kept |-> <<>>] :
                  l \in OffboardingLists}

\* a record replaces the one kept on a date that is the same or later
NewerOrSame(a, b) == a >= b

\* new Date(record.created) > new Date(kept.created)
Newer(a, b) == a > b

\* employeeMap holds the positions of the records kept, in the order their
\* employees were first met; Has, Where and Set are Map's has, get and set
Has(kept, list, e) == \E j \in 1..Len(kept) : list[kept[j]].employeeId = e

Where(kept, list, e) ==
    CHOOSE j \in 1..Len(kept) : list[kept[j]].employeeId = e

Set(kept, list, e, i) ==
    IF Has(kept, list, e)
    THEN [kept EXCEPT ![Where(kept, list, e)] = i]
    ELSE Append(kept, i)

\* one turn of allOffboardings.forEach
Visit ==
    /\ run.pc = "listing"
    /\ run.i <= Len(run.list)
    /\ LET record == run.list[run.i]
           e == record.employeeId
           kept == run.kept
       IN  run' = [run EXCEPT
                      !.i = @ + 1,
                      !.kept =
                          IF e = NoEmployee
                          THEN kept
                          ELSE IF \/ ~Has(kept, run.list, e)
                                  \/ Newer(record.created,
                                       run.list[kept[Where(kept, run.list,
                                                           e)]].created)
                          THEN Set(kept, run.list, e, run.i)
                          ELSE kept]
    /\ Frame

\* Array.from(employeeMap.values()) is returned
Collect ==
    /\ run.pc = "listing"
    /\ run.i > Len(run.list)
    /\ run' = [run EXCEPT !.pc = "done"]
    /\ Frame

NextOffboarding == Visit \/ Collect

SpecOffboarding == InitOffboarding /\ [][NextOffboarding]_vars

\* the positions of employee e's records in list
RecordsOf(list, e) == {i \in 1..Len(list) : list[i].employeeId = e}

\* the first of the records of employee e that no record of e is newer than
NewestOf(list, e) ==
    CHOOSE i \in RecordsOf(list, e) :
        /\ \A k \in RecordsOf(list, e) : list[k].created <= list[i].created
        /\ \A k \in RecordsOf(list, e) :
            list[k].created = list[i].created => i <= k

\* C30: getOffboardingList returns one record for every employeeId that
\* occurs in the upstream list and no more: the record of that employee with
\* the newest created date, the first of them when several share that date;
\* and it returns no record without an employeeId.
C30_NewestPerEmployee ==
    run.pc = "done"
    => LET returned == {run.kept[j] : j \in 1..Len(run.kept)}
       IN  /\ Cardinality(returned) = Len(run.kept)
           /\ returned =
                {NewestOf(run.list, e) :
                    e \in {x \in Employees : RecordsOf(run.list, x) # {}}}

\* an employee has two records of the same, newest date, of which the first
\* is returned, and the list holds a record without an employeeId
C30_Witness ==
    /\ run.pc = "done"
    /\ \E i, k \in 1..Len(run.list) :
        /\ i < k
        /\ run.list[i].employeeId = run.list[k].employeeId
        /\ run.list[i].employeeId # NoEmployee
        /\ run.list[i].created = run.list[k].created
        /\ run.list[i].created = MaxDate
        /\ \E j \in 1..Len(run.kept) : run.kept[j] = i
    /\ \E i \in 1..Len(run.list) : run.list[i].employeeId = NoEmployee

====
